---------------------------- MODULE Spec2Model ----------------------------
(***************************************************************************)
(* Laser Chess matchmaking + relay server (src/server.py).                 *)
(*                                                                         *)
(* One asyncio task per connection runs handler(ws).  A task runs without  *)
(* interruption until it awaits an outbound send (_send); every such await *)
(* is a point where the tasks of other connections may run.  Each action   *)
(* below is the code of one task from one such point to the next, so every *)
(* action performs at most one _send.                                      *)
(***************************************************************************)
EXTENDS Integers, Sequences, FiniteSets, TLC

(***************************************************************************)
(* Bounds of the model.                                                    *)
(***************************************************************************)
MaxConn == 3        \* connections accepted over the life of the process
MaxMatches == 2     \* Match objects created over the life of the process
MaxSeed == 0        \* seeds are drawn from 0..MaxSeed instead of 0..2^31-1
MaxSuffix == 11     \* name suffixes are drawn from 10..MaxSuffix instead of 10..99
MaxBusy == 2        \* handler tasks that are suspended at a send at the same time
MaxMsgs == 6        \* inbound messages handled over the life of the process
ProfileConns == 2   \* connections accepted when the clients set their profiles
ProfileMsgs == 5    \* inbound messages handled when the clients set their profiles
RawConns == 2       \* connections accepted when the clients send malformed payloads
RawMsgs == 5        \* inbound payloads handled when the clients send malformed payloads
FairConns == 2      \* connections accepted when every suspended task resumes
FairMsgs == 5       \* inbound messages handled when every suspended task resumes
LobbyConns == 3     \* connections accepted when the lobby_list of the clients are watched
LobbyMsgs == 4      \* inbound messages handled when the lobby_list of the clients are watched

(***************************************************************************)
(* Program constants.                                                      *)
(***************************************************************************)
DefaultElo == 1000  \* Player.__init__, elo=1000
MinElo == 100       \* max(100, p.elo)
K == 32             \* K-factor
MinSuffix == 10     \* random.randint(10, 99)
None == 0           \* None: no Match, no Player

Conns == 1..MaxConn
Seeds == 0..MaxSeed
Suffixes == MinSuffix..MaxSuffix

(***************************************************************************)
(* Inputs: the values the fields of inbound messages are drawn from.  An   *)
(* optional field is a sequence: <<>> when the key is absent, <<v>> when   *)
(* it is present with value v.                                             *)
(***************************************************************************)
ADJ == {"Swift"}
PIECE == {"Pawn"}
NameInputs == {<<>>, <<"">>, <<"Ann">>}
EloInputs == {<<>>, <<50>>}
PlayerIdInputs == {<<>>, <<"pid-7">>}
ScoreInputs == {<<>>, <<5>>}
ProfileInputs == [name : NameInputs, elo : EloInputs, player_id : PlayerIdInputs]

\* a message that sets no profile field
NoProfile == [name |-> <<>>, elo |-> <<>>, player_id |-> <<>>]

VARIABLES
    players,    \* the dict `players`: the registered connections, in insertion order
    P,          \* the Player object of each connection (it outlives its registration)
    next_id,    \* _next_id
    matches,    \* every Match object created, in creation order
    pc,         \* where the handler task of each connection stands
    k,          \* the local variables of a task suspended at a send
    sent,       \* the message handed to _send by the last step, if any
    audit,      \* per Match: how often it was ended, rated, reported and announced
    quota,      \* the clients: the number of messages they may still send
    script,     \* the clients of the scripted scenario: what each has still to send
    seen        \* the clients, where watched: the last lobby_list each was sent

vars == <<players, P, next_id, matches, pc, k, sent, audit, quota, script, seen>>

(***************************************************************************)
(* Helpers.                                                                *)
(***************************************************************************)
Range(s) == {s[i] : i \in 1..Len(s)}

Max(a, b) == IF a >= b THEN a ELSE b

Remove(s, w) == SelectSeq(s, LAMBDA x : x # w)

NoPlayer ==
    [id |-> 0, player_id |-> "", name |-> "", elo |-> DefaultElo,
     in_lobby |-> FALSE, match |-> None, best_score |-> 0]

\* Player.__init__
Player(pid, name) ==
    [id |-> pid, player_id |-> "", name |-> name, elo |-> DefaultElo,
     in_lobby |-> FALSE, match |-> None, best_score |-> 0]

\* Match.__init__
Match(p1, p2, seed) == [p1 |-> p1, p2 |-> p2, seed |-> seed, ended |-> FALSE]

NoAudit ==
    [ended |-> 0, rated |-> <<0, 0>>, reported |-> <<0, 0>>, started |-> <<0, 0>>,
     forfeit_by |-> None]

K0 == [rest |-> <<>>, msg |-> <<>>, next |-> "idle", m |-> None, tgt |-> 0, seed |-> 0,
       changes |-> <<>>]

Msg(w, body) == <<[to |-> w, body |-> body]>>

\* _gen_name
GenName == {a \o p : a \in ADJ, p \in PIECE}

\* handler: the name given to a new connection
FreshNames(names) ==
    (GenName \ names)
    \cup (IF GenName \cap names = {} THEN {}
          ELSE {g \o ToString(n) : g \in GenName, n \in Suffixes} \ names)

\* round(K * (1.0 - expected)) changes value at these rating differences o.elo - p.elo
WinThresholds ==
    <<-719, -523, -428, -364, -314, -273, -237, -205, -176, -149, -124, -100, -77, -54,
      -32, -10, 11, 33, 55, 78, 101, 125, 150, 177, 206, 238, 274, 315, 365, 429, 524, 720>>

\* EloChange with the two ratings exchanged in the expected score
EloChangeSwapped(result, p_elo, o_elo) ==
    LET d == p_elo - o_elo
        won == Cardinality({i \in 1..Len(WinThresholds) : WinThresholds[i] <= d})
    IN  CASE result = "win" -> won
          [] result = "draw" -> won - (K \div 2)
          [] result = "lose" -> won - K

\* int(round(K * (actual - expected))), expected = 1.0 / (1.0 + 10 ** ((o_elo - p_elo) / 400.0))
EloChange(result, p_elo, o_elo) ==
    LET d == o_elo - p_elo
        won == Cardinality({i \in 1..Len(WinThresholds) : WinThresholds[i] <= d})
    IN  CASE result = "win" -> won
          [] result = "draw" -> won - (K \div 2)
          [] result = "lose" -> won - K

\* Result with the comparison turned around
ResultReversed(p_score, o_score) ==
    IF p_score < o_score THEN "win" ELSE IF p_score > o_score THEN "lose" ELSE "draw"

\* "win" if p.best_score > o.best_score else ("lose" if p.best_score < o.best_score else "draw")
Result(p_score, o_score) ==
    IF p_score > o_score THEN "win" ELSE IF p_score < o_score THEN "lose" ELSE "draw"

\* ApplyChange without the floor
ApplyChangeNoFloor(elo, change) == elo + change

\* p.elo += elo_change; p.elo = max(100, p.elo)
ApplyChange(elo, change) == Max(MinElo, elo + change)

\* the profile fields a client may set: name and elo, and player_id on join_lobby
SetProfile(p, data, withPlayerId) ==
    [p EXCEPT !.name = IF data.name # <<>> /\ data.name[1] # "" THEN data.name[1] ELSE @,
              !.elo = IF data.elo # <<>> THEN data.elo[1] ELSE @,
              !.player_id = IF withPlayerId /\ data.player_id # <<>>
                            THEN data.player_id[1] ELSE @]

\* _broadcast_lobby up to its first send: the snapshot it takes and where the task goes on
Broadcast(Pn, reg, nxt) ==
    LET lobby == SelectSeq(reg, LAMBDA w : Pn[w].in_lobby)
        plist == [i \in 1..Len(lobby) |->
                    [id |-> Pn[lobby[i]].id, name |-> Pn[lobby[i]].name,
                     elo |-> Pn[lobby[i]].elo]]
        msg == [type |-> "lobby_list", players |-> plist, total_online |-> Len(reg)]
    IN  IF lobby = <<>>
        THEN [pc |-> nxt, k |-> K0, sent |-> <<>>]
        ELSE [pc |-> "bcast",
              k |-> [K0 EXCEPT !.rest = Tail(lobby), !.msg = msg, !.next = nxt],
              sent |-> Msg(Head(lobby), msg)]

\* _handle_challenge: the lookup of the target by its session id
FindById(tid) ==
    LET hits == SelectSeq(players, LAMBDA w : P[w].id = tid)
    IN  IF hits = <<>> THEN None ELSE Head(hits)

\* ChallengeOutcome without the check of the requester's own lobby membership
ChallengeOutcomeAnyRequester(c, tid) ==
    LET t == FindById(tid)
    IN  IF t = None \/ ~P[t].in_lobby THEN "Player is no longer available"
        ELSE IF P[t].id = P[c].id THEN "Cannot challenge yourself"
        ELSE "ok"

\* ChallengeOutcome with the self-challenge check made first
ChallengeOutcomeSelfFirst(c, tid) ==
    LET t == FindById(tid)
    IN  IF t # None /\ P[t].id = P[c].id THEN "Cannot challenge yourself"
        ELSE IF t = None \/ ~P[t].in_lobby THEN "Player is no longer available"
        ELSE IF ~P[c].in_lobby THEN "You are not in the lobby"
        ELSE "ok"

\* ChallengeOutcome without the check of the target's lobby membership
ChallengeOutcomeAnyTarget(c, tid) ==
    LET t == FindById(tid)
    IN  IF t = None THEN "Player is no longer available"
        ELSE IF P[t].id = P[c].id THEN "Cannot challenge yourself"
        ELSE IF ~P[c].in_lobby THEN "You are not in the lobby"
        ELSE "ok"

\* _handle_challenge: the three checks, in the order of the code
ChallengeOutcome(c, tid) ==
    LET t == FindById(tid)
    IN  IF t = None \/ ~P[t].in_lobby THEN "Player is no longer available"
        ELSE IF P[t].id = P[c].id THEN "Cannot challenge yourself"
        ELSE IF ~P[c].in_lobby THEN "You are not in the lobby"
        ELSE "ok"

\* Opponent that is always the first participant
OpponentFirst(m, c) == matches[m].p1

\* opp = m.p2 if player == m.p1 else m.p1
Opponent(m, c) == IF c = matches[m].p1 THEN matches[m].p2 ELSE matches[m].p1

\* the position of a Player in the (p1, p2) pair of a Match
Role(m, w) == IF w = matches[m].p1 THEN 1 ELSE 2

Bump(a, field, i) == [a EXCEPT ![field] = [@ EXCEPT ![i] = @ + 1]]

(***************************************************************************)
(* State after the module is loaded.                                       *)
(***************************************************************************)
ServerInit ==
    /\ players = <<>>
    /\ P = [c \in Conns |-> NoPlayer]
    /\ next_id = 0
    /\ matches = <<>>
    /\ pc = [c \in Conns |-> "new"]
    /\ k = [c \in Conns |-> K0]
    /\ sent = <<>>
    /\ audit = <<>>

\* the tasks that are suspended at a send
Busy == {c \in Conns : pc[c] \notin {"new", "idle", "closed"}}

\* the task of c is waiting at `async for raw in ws`
Idle(c) == pc[c] = "idle" /\ Cardinality(Busy) < MaxBusy

\* clients that follow no script
NoScript == [cast |-> [c \in Conns |-> "-"], todo |-> [c \in Conns |-> <<>>], log |-> <<>>]

\* The client of c sends msg, and the task of c takes it.  Clients that follow no
\* script send whatever they like, as many messages as quota allows; one that follows a
\* script sends the messages of its script, in their order.
Take(c, msg) ==
    /\ Idle(c)
    /\ IF script = NoScript
       THEN /\ quota > 0
            /\ quota' = quota - 1
            /\ UNCHANGED script
       ELSE /\ script.todo[c] # <<>>
            /\ Head(script.todo[c]) = msg
            /\ script' = [script EXCEPT !.todo[c] = Tail(@),
                                        !.log = Append(@, <<script.cast[c], msg.type>>)]
            /\ UNCHANGED quota

\* clients whose lobby_list are not watched, and clients whose lobby_list are
Unwatched == [on |-> FALSE, list |-> [c \in Conns |-> <<>>]]

Watched == [on |-> TRUE, list |-> [c \in Conns |-> <<>>]]

\* the clients send nothing in this step
Quiet == UNCHANGED <<quota, script>>

\* the task of c goes on as b says
Goto(c, b) ==
    /\ pc' = [pc EXCEPT ![c] = b.pc]
    /\ k' = [k EXCEPT ![c] = b.k]
    /\ sent' = b.sent
    /\ seen' = IF seen.on /\ b.sent # <<>> /\ b.sent[1].body.type = "lobby_list"
               THEN [seen EXCEPT !.list[b.sent[1].to] = b.sent[1].body.players]
               ELSE seen

At(where, kk, msg) == [pc |-> where, k |-> kk, sent |-> msg]

(***************************************************************************)
(* handler: a new connection.  Connections are numbered in the order in    *)
(* which they are accepted.                                                *)
(***************************************************************************)
Connect(c) ==
    /\ c = next_id + 1
    /\ pc[c] = "new"
    /\ Cardinality(Busy) < MaxBusy
    /\ \E name \in FreshNames({P[w].name : w \in Range(players)}) :
         /\ P' = [P EXCEPT ![c] = Player(next_id + 1, name)]
         /\ Goto(c, At("welcome", K0,
                       Msg(c, [type |-> "welcome", id |-> next_id + 1, name |-> name])))
    /\ next_id' = next_id + 1
    /\ players' = Append(players, c)
    /\ UNCHANGED <<matches, audit>>
    /\ Quiet

\* handler: the welcome has been sent, the task waits for the first message
ResumeWelcome(c) ==
    /\ pc[c] = "welcome"
    /\ Goto(c, At("idle", K0, <<>>))
    /\ UNCHANGED <<players, P, next_id, matches, audit>>
    /\ Quiet

\* handler, join_lobby
JoinLobby(c, data) ==
    /\ Take(c, [type |-> "join_lobby", data |-> data])
    /\ LET Pn == [P EXCEPT ![c] = [SetProfile(@, data, TRUE) EXCEPT !.in_lobby = TRUE]]
       IN  P' = Pn /\ Goto(c, Broadcast(Pn, players, "idle"))
    /\ UNCHANGED <<players, next_id, matches, audit>>

\* handler, leave_lobby
LeaveLobby(c) ==
    /\ Take(c, [type |-> "leave_lobby"])
    /\ LET Pn == [P EXCEPT ![c].in_lobby = FALSE]
       IN  P' = Pn /\ Goto(c, Broadcast(Pn, players, "idle"))
    /\ UNCHANGED <<players, next_id, matches, audit>>

\* handler, rejoin_lobby
RejoinLobby(c, data) ==
    /\ Take(c, [type |-> "rejoin_lobby", data |-> data])
    /\ LET Pn == [P EXCEPT ![c] = [SetProfile(@, data, FALSE) EXCEPT
                                      !.match = None, !.best_score = 0, !.in_lobby = TRUE]]
       IN  P' = Pn /\ Goto(c, Broadcast(Pn, players, "idle"))
    /\ UNCHANGED <<players, next_id, matches, audit>>

\* handler, update_info
UpdateInfo(c, data) ==
    /\ Take(c, [type |-> "update_info", data |-> data])
    /\ LET Pn == [P EXCEPT ![c] = SetProfile(@, data, FALSE)]
       IN  /\ P' = Pn
           /\ IF Pn[c].in_lobby THEN Goto(c, Broadcast(Pn, players, "idle"))
              ELSE Goto(c, At("idle", K0, <<>>))
    /\ UNCHANGED <<players, next_id, matches, audit>>

\* _broadcast_lobby: the task resumes after a send of the loop
ResumeBroadcast(c) ==
    /\ pc[c] = "bcast"
    /\ IF k[c].rest = <<>>
       THEN Goto(c, At(k[c].next, K0, <<>>))
       ELSE Goto(c, At("bcast", [k[c] EXCEPT !.rest = Tail(@)],
                       Msg(Head(k[c].rest), k[c].msg)))
    /\ UNCHANGED <<players, P, next_id, matches, audit>>
    /\ Quiet

\* _handle_challenge: the match_start sent to `me` about its opponent `o`
MatchStart(Pn, seed, me, o) ==
    Msg(me, [type |-> "match_start", seed |-> seed, opponent |-> Pn[o].name,
             opponent_elo |-> Pn[o].elo, opponent_player_id |-> Pn[o].player_id])

\* Enter that leaves the session in the lobby
EnterKeepLobby(p, m) == [p EXCEPT !.match = m, !.best_score = 0]

\* _handle_challenge: player.in_lobby = False; player.match = m; player.best_score = 0
Enter(p, m) == [p EXCEPT !.in_lobby = FALSE, !.match = m, !.best_score = 0]

\* handler, challenge: _handle_challenge up to its first send
Challenge(c, tid) ==
    /\ Take(c, [type |-> "challenge", target_id |-> tid])
    /\ LET t == FindById(tid)
           why == ChallengeOutcome(c, tid)
           m == Len(matches) + 1
       IN  IF why # "ok"
           THEN /\ Goto(c, At("fail", K0, Msg(c, [type |-> "challenge_failed", msg |-> why])))
                /\ UNCHANGED <<P, matches, audit>>
           ELSE /\ Len(matches) < MaxMatches
                /\ \E seed \in Seeds :
                     /\ matches' = Append(matches, Match(c, t, seed))
                     /\ Goto(c, At("start1", [K0 EXCEPT !.tgt = t, !.seed = seed, !.m = m],
                                   MatchStart(P, seed, c, t)))
                /\ audit' = Append(audit, Bump(NoAudit, "started", 1))
                /\ P' = [P EXCEPT ![c] = Enter(@, m), ![t] = Enter(@, m)]
    /\ UNCHANGED <<players, next_id>>

\* _handle_challenge: challenge_failed has been sent
ResumeFail(c) ==
    /\ pc[c] = "fail"
    /\ Goto(c, At("idle", K0, <<>>))
    /\ UNCHANGED <<players, P, next_id, matches, audit>>
    /\ Quiet

\* _handle_challenge: the requester's match_start has been sent, the target's is next
ResumeStart1(c) ==
    /\ pc[c] = "start1"
    /\ Goto(c, At("start2", k[c], MatchStart(P, k[c].seed, k[c].tgt, c)))
    /\ audit' = [audit EXCEPT ![k[c].m] = Bump(@, "started", 2)]
    /\ UNCHANGED <<players, P, next_id, matches>>
    /\ Quiet

\* _handle_challenge: both match_start have been sent, the lobby is broadcast
ResumeStart2(c) ==
    /\ pc[c] = "start2"
    /\ Goto(c, Broadcast(P, players, "idle"))
    /\ UNCHANGED <<players, P, next_id, matches, audit>>
    /\ Quiet

\* handler, score_update: _handle_score
ScoreUpdate(c, score) ==
    /\ Take(c, [type |-> "score_update", best_score |-> score])
    /\ LET m == P[c].match
       IN  IF m = None \/ matches[m].ended
           THEN Goto(c, At("idle", K0, <<>>)) /\ UNCHANGED P
           ELSE LET Pn == [P EXCEPT ![c].best_score = IF score # <<>> THEN score[1] ELSE 0]
                IN  /\ P' = Pn
                    /\ Goto(c, At("score", K0,
                                  Msg(Opponent(m, c), [type |-> "opponent_score",
                                                       best_score |-> Pn[c].best_score])))
    /\ UNCHANGED <<players, next_id, matches, audit>>

\* _handle_score: opponent_score has been sent
ResumeScore(c) ==
    /\ pc[c] = "score"
    /\ Goto(c, At("idle", K0, <<>>))
    /\ UNCHANGED <<players, P, next_id, matches, audit>>
    /\ Quiet

\* _handle_match_end: the entry of elo_changes for p against o
Change(Pn, p, o) ==
    LET result == Result(Pn[p].best_score, Pn[o].best_score)
    IN  [result |-> result, elo_change |-> EloChange(result, Pn[p].elo, Pn[o].elo)]

\* _handle_match_end: the match_result sent to p about its opponent o
MatchResult(Pn, p, o, chg) ==
    Msg(p, [type |-> "match_result", result |-> chg.result,
            my_score |-> Pn[p].best_score, opp_score |-> Pn[o].best_score,
            elo_change |-> chg.elo_change, opponent_name |-> Pn[o].name,
            opponent_elo |-> Pn[o].elo, opponent_player_id |-> Pn[o].player_id])

\* EndGuard without the test of m.ended
EndGuardNoFlag(m) == m = None

\* _handle_match_end: the guard on entry
EndGuard(m) == m = None \/ matches[m].ended

\* handler, match_end: _handle_match_end up to the send to m.p1
MatchEnd(c, score) ==
    /\ Take(c, [type |-> "match_end", best_score |-> score])
    /\ LET m == P[c].match
       IN  IF EndGuard(m)
           THEN Goto(c, At("idle", K0, <<>>)) /\ UNCHANGED <<P, matches, audit>>
           ELSE LET p1 == matches[m].p1
                    p2 == matches[m].p2
                    P0 == [P EXCEPT ![c].best_score = IF score # <<>> THEN score[1] ELSE @]
                    ch == <<Change(P0, p1, p2), Change(P0, p2, p1)>>
                    P1 == [P0 EXCEPT ![p1].elo = ApplyChange(@, ch[1].elo_change)]
                IN  /\ matches' = [matches EXCEPT ![m].ended = TRUE]
                    /\ audit' = [audit EXCEPT ![m] =
                                    Bump(Bump([@ EXCEPT !.ended = @ + 1], "rated", 1),
                                         "reported", 1)]
                    /\ P' = P1
                    /\ Goto(c, At("end1", [K0 EXCEPT !.m = m, !.changes = ch],
                                  MatchResult(P1, p1, p2, ch[1])))
    /\ UNCHANGED <<players, next_id>>

\* _handle_match_end: m.p1 has its result, m.p2 is rated and sent its own
ResumeEnd1(c) ==
    /\ pc[c] = "end1"
    /\ LET m == k[c].m
           p1 == matches[m].p1
           p2 == matches[m].p2
           ch == k[c].changes
           P2 == [P EXCEPT ![p2].elo = ApplyChange(@, ch[2].elo_change)]
       IN  /\ P' = P2
           /\ audit' = [audit EXCEPT ![m] = Bump(Bump(@, "rated", 2), "reported", 2)]
           /\ Goto(c, At("end2", k[c], MatchResult(P2, p2, p1, ch[2])))
    /\ UNCHANGED <<players, next_id, matches>>
    /\ Quiet

\* _handle_match_end: both results have been sent, the match is detached
ResumeEnd2(c) ==
    /\ pc[c] = "end2"
    /\ LET m == k[c].m
       IN  P' = [P EXCEPT ![matches[m].p1].match = None, ![matches[m].p2].match = None]
    /\ Goto(c, At("idle", K0, <<>>))
    /\ UNCHANGED <<players, next_id, matches, audit>>
    /\ Quiet

\* _handle_disconnect, from was_lobby on: the removal from the registry
Leave(c) ==
    LET reg == Remove(players, c)
    IN  /\ players' = reg
        /\ IF P[c].in_lobby THEN Goto(c, Broadcast(P, reg, "closed"))
           ELSE Goto(c, At("closed", K0, <<>>))

\* _handle_disconnect: the guard of the forfeit
ForfeitGuard(m) == m # None /\ ~matches[m].ended

\* _handle_disconnect up to its first send
HandleDisconnect(c) ==
    /\ LET m == P[c].match
       IN  IF ForfeitGuard(m)
           THEN LET opp == Opponent(m, c)
                    elo_change == EloChange("win", P[opp].elo, P[c].elo)
                    Pn == [P EXCEPT ![opp] = [@ EXCEPT !.elo = ApplyChange(@, elo_change),
                                                        !.match = None]]
                IN  /\ matches' = [matches EXCEPT ![m].ended = TRUE]
                    /\ audit' = [audit EXCEPT ![m] =
                                    Bump(Bump([@ EXCEPT !.ended = @ + 1, !.forfeit_by = c],
                                              "rated", Role(m, opp)),
                                         "reported", Role(m, opp))]
                    /\ P' = Pn
                    /\ Goto(c, At("dc1", K0,
                                  Msg(opp, [type |-> "opponent_disconnected",
                                            elo_change |-> elo_change,
                                            my_score |-> Pn[opp].best_score,
                                            opp_score |-> Pn[c].best_score,
                                            opponent_name |-> Pn[c].name,
                                            opponent_elo |-> Pn[c].elo,
                                            opponent_player_id |-> Pn[c].player_id])))
                    /\ UNCHANGED players
           ELSE Leave(c) /\ UNCHANGED <<P, matches, audit>>
    /\ UNCHANGED next_id

\* handler, the connection is closed: the loop over the messages ends, finally runs
Disconnect(c) ==
    /\ Idle(c)
    /\ HandleDisconnect(c)
    /\ Quiet

\* The payloads that are not a message of the protocol: text that is not JSON, JSON
\* that is not an object, an object without type, with a type that is not a string,
\* with a type that no branch handles.
RawInputs ==
    {[json |-> FALSE, object |-> FALSE, type |-> <<>>],
     [json |-> TRUE, object |-> FALSE, type |-> <<>>],
     [json |-> TRUE, object |-> TRUE, type |-> <<>>],
     [json |-> TRUE, object |-> TRUE, type |-> <<[string |-> FALSE, text |-> "5"]>>],
     [json |-> TRUE, object |-> TRUE, type |-> <<[string |-> TRUE, text |-> "ping"]>>]}

\* the values of type that a branch of handler handles
KnownTypes ==
    {"join_lobby", "leave_lobby", "challenge", "score_update", "match_end",
     "rejoin_lobby", "update_info"}

\* t = data.get("type", "") is the type of a branch
Handled(raw) ==
    raw.type # <<>> /\ raw.type[1].string /\ raw.type[1].text \in KnownTypes

\* handler, a payload of RawInputs.  json.loads raises JSONDecodeError on text that is
\* not JSON, and the inner try drops it.  On JSON that is not an object, data.get
\* raises AttributeError, which no except clause of handler catches: finally runs
\* _handle_disconnect and the connection is closed.  An object whose type matches no
\* branch is dropped.
Malformed(c, raw) ==
    /\ Take(c, [type |-> "raw", raw |-> raw])
    /\ IF raw.json /\ ~raw.object
       THEN HandleDisconnect(c)
       ELSE /\ ~raw.json \/ ~Handled(raw)
            /\ Goto(c, At("idle", K0, <<>>))
            /\ UNCHANGED <<players, P, next_id, matches, audit>>

\* _handle_disconnect: opponent_disconnected has been sent
ResumeForfeit(c) ==
    /\ pc[c] = "dc1"
    /\ Leave(c)
    /\ UNCHANGED <<P, next_id, matches, audit>>
    /\ Quiet

(***************************************************************************)
(* The server: a connection is accepted, a task takes the next message of  *)
(* its connection, a suspended task resumes, or a connection is closed.    *)
(* n connections are accepted; join_lobby carries a profile of J,          *)
(* rejoin_lobby and update_info one of I, score_update and match_end a     *)
(* score of S.                                                             *)
(***************************************************************************)
Server(n, J, I, S) ==
    \E c \in 1..n :
        \/ Connect(c)
        \/ ResumeWelcome(c)
        \/ \E score \in S : ScoreUpdate(c, score)
        \/ ResumeScore(c)
        \/ \E score \in S : MatchEnd(c, score)
        \/ ResumeEnd1(c)
        \/ ResumeEnd2(c)
        \/ \E data \in J : JoinLobby(c, data)
        \/ LeaveLobby(c)
        \/ \E tid \in Conns : Challenge(c, tid)
        \/ ResumeFail(c)
        \/ ResumeStart1(c)
        \/ ResumeStart2(c)
        \/ \E data \in I : RejoinLobby(c, data)
        \/ \E data \in I : UpdateInfo(c, data)
        \/ ResumeBroadcast(c)
        \/ Disconnect(c)
        \/ ResumeForfeit(c)

\* rejoin_lobby and update_info read name and elo only
InfoInputs == {d \in ProfileInputs : d.player_id = <<>>}

Init == ServerInit /\ quota = MaxMsgs /\ script = NoScript /\ seen = Unwatched

\* MaxConn clients that never send a profile field
Next == Server(MaxConn, {NoProfile}, {NoProfile}, ScoreInputs)

Spec == Init /\ [][Next]_vars

\* ProfileConns clients that set their name, elo and player_id
NextProfile == Server(ProfileConns, ProfileInputs, InfoInputs, ScoreInputs)

ProfileInit == ServerInit /\ quota = ProfileMsgs /\ script = NoScript /\ seen = Unwatched

SpecProfile == ProfileInit /\ [][NextProfile]_vars

(***************************************************************************)
(* The scenario of two clients A and B that join the lobby with the        *)
(* default rating, are matched by a challenge of one of them, and then     *)
(* each report a running score and end the match: A with 10, B with 5.     *)
(* Each client sends its messages in the order of its script; a client     *)
(* challenges once it sees the other in the lobby, and plays once it has   *)
(* been sent its match_start.                                              *)
(***************************************************************************)
Play(score) ==
    <<[type |-> "score_update", best_score |-> <<score>>],
      [type |-> "match_end", best_score |-> <<score>>]>>

ScriptOf(a, b, challenger) ==
    LET join == <<[type |-> "join_lobby", data |-> NoProfile]>>
        ask(c, o) == IF c = challenger THEN <<[type |-> "challenge", target_id |-> o]>>
                     ELSE <<>>
    IN  [cast |-> [c \in Conns |-> IF c = a THEN "A" ELSE IF c = b THEN "B" ELSE "-"],
         todo |-> [c \in Conns |-> IF c = a THEN join \o ask(a, b) \o Play(10)
                                   ELSE IF c = b THEN join \o ask(b, a) \o Play(5)
                                   ELSE <<>>],
         log |-> <<>>]

ScenarioInit ==
    /\ ServerInit
    /\ quota = 0
    /\ seen = Unwatched
    /\ script \in {ScriptOf(1, 2, 1), ScriptOf(1, 2, 2), ScriptOf(2, 1, 1), ScriptOf(2, 1, 2)}

\* the client of c sees a session with id tid in the lobby
Sees(c, tid) == \E w \in Range(players) : w # c /\ P[w].id = tid /\ P[w].in_lobby

\* the client of c has been sent the match_start of its match
Started(c) ==
    /\ P[c].match # None
    /\ audit[P[c].match].started[Role(P[c].match, c)] = 1

ScenarioNext ==
    \E c \in 1..2 :
        \/ Connect(c)
        \/ ResumeWelcome(c)
        \/ JoinLobby(c, NoProfile)
        \/ \E tid \in 1..2 : Sees(c, tid) /\ P[c].in_lobby /\ Challenge(c, tid)
        \/ ResumeStart1(c)
        \/ ResumeStart2(c)
        \/ \E score \in {<<5>>, <<10>>} : Started(c) /\ ScoreUpdate(c, score)
        \/ ResumeScore(c)
        \/ \E score \in {<<5>>, <<10>>} : Started(c) /\ MatchEnd(c, score)
        \/ ResumeEnd1(c)
        \/ ResumeEnd2(c)
        \/ ResumeBroadcast(c)

SpecScenario == ScenarioInit /\ [][ScenarioNext]_vars

\* the connection that plays the part `who` of the scenario
Actor(who) == CHOOSE c \in Conns : script.cast[c] = who

\* every script has been sent and every task has come back to `async for raw in ws`
ScenarioDone == \A c \in 1..2 : script.todo[c] = <<>> /\ pc[c] = "idle"

\* B's match_end was taken before A's score_update
BEndEarly ==
    \E i \in 1..Len(script.log) :
        /\ script.log[i] = <<"B", "match_end">>
        /\ \A j \in 1..i : script.log[j] # <<"A", "score_update">>

\* RawConns clients that also send payloads that are not messages of the protocol
NextRaw ==
    \/ Server(RawConns, {NoProfile}, {NoProfile}, ScoreInputs)
    \/ \E c \in 1..RawConns : \E raw \in RawInputs : Malformed(c, raw)

RawInit == ServerInit /\ quota = RawMsgs /\ script = NoScript /\ seen = Unwatched

SpecRaw == RawInit /\ [][NextRaw]_vars

\* LobbyConns clients that join and leave the lobby, challenge and disconnect, and
\* whose lobby_list are watched
NextLobby ==
    \E c \in 1..LobbyConns :
        \/ Connect(c)
        \/ ResumeWelcome(c)
        \/ JoinLobby(c, NoProfile)
        \/ LeaveLobby(c)
        \/ \E tid \in 1..LobbyConns : Challenge(c, tid)
        \/ ResumeFail(c)
        \/ ResumeStart1(c)
        \/ ResumeStart2(c)
        \/ ResumeBroadcast(c)
        \/ Disconnect(c)
        \/ ResumeForfeit(c)

LobbyInit == ServerInit /\ quota = LobbyMsgs /\ script = NoScript /\ seen = Watched

SpecLobby == LobbyInit /\ [][NextLobby]_vars

\* a task that is suspended at a send resumes
Resume ==
    \E c \in Conns :
        \/ ResumeWelcome(c)
        \/ ResumeBroadcast(c)
        \/ ResumeFail(c)
        \/ ResumeStart1(c)
        \/ ResumeStart2(c)
        \/ ResumeScore(c)
        \/ ResumeEnd1(c)
        \/ ResumeEnd2(c)
        \/ ResumeForfeit(c)

\* FairConns clients; every send completes (_send swallows every failure), so a
\* suspended task always resumes.  What the clients send, and when a connection is
\* closed, is up to the clients.
NextFair == Server(FairConns, {NoProfile}, {NoProfile}, ScoreInputs)

FairInit == ServerInit /\ quota = FairMsgs /\ script = NoScript /\ seen = Unwatched

SpecFair == FairInit /\ [][NextFair]_vars /\ WF_vars(Resume)

(***************************************************************************)
(* The scenario of a client A that challenges a client B twice, one        *)
(* challenge right after the other, while B sends nothing after its        *)
(* join_lobby.  A third client C joins the lobby and challenges B as well. *)
(* Any of the three connections may be closed at any time.                 *)
(***************************************************************************)
TwiceScript(a, b) ==
    LET join == <<[type |-> "join_lobby", data |-> NoProfile]>>
        ask(o) == <<[type |-> "challenge", target_id |-> o]>>
    IN  [cast |-> [w \in Conns |-> IF w = a THEN "A" ELSE IF w = b THEN "B" ELSE "C"],
         todo |-> [w \in Conns |-> IF w = a THEN join \o ask(b) \o ask(b)
                                   ELSE IF w = b THEN join
                                   ELSE join \o ask(b)],
         log |-> <<>>]

TwiceInit ==
    /\ ServerInit
    /\ quota = 0
    /\ seen = Unwatched
    /\ \E a, b \in 1..3 : a # b /\ script = TwiceScript(a, b)

TwiceNext ==
    \E c \in 1..3 :
        \/ Connect(c)
        \/ ResumeWelcome(c)
        \/ JoinLobby(c, NoProfile)
        \/ \E tid \in 1..3 : Challenge(c, tid)
        \/ ResumeFail(c)
        \/ ResumeStart1(c)
        \/ ResumeStart2(c)
        \/ ResumeBroadcast(c)
        \/ Disconnect(c)
        \/ ResumeForfeit(c)

SpecTwice == TwiceInit /\ [][TwiceNext]_vars

(***************************************************************************)
(* The scenario of a forfeit between two clients that report their ratings *)
(* when they join the lobby: A joins and challenges B, B joins, and either *)
(* connection may be closed at any time.                                   *)
(***************************************************************************)
ForfeitRatings == {100, 280, 281, 1000, 1720}

\* a join_lobby that reports the rating r
Rated(r) == [name |-> <<>>, elo |-> <<r>>, player_id |-> <<>>]

ForfeitScript(ra, rb) ==
    LET join(r) == <<[type |-> "join_lobby", data |-> Rated(r)]>>
    IN  [cast |-> [w \in Conns |-> IF w = 1 THEN "A" ELSE IF w = 2 THEN "B" ELSE "-"],
         todo |-> [w \in Conns |-> IF w = 1
                                   THEN join(ra) \o <<[type |-> "challenge", target_id |-> 2]>>
                                   ELSE IF w = 2 THEN join(rb) ELSE <<>>],
         log |-> <<>>]

ForfeitInit ==
    /\ ServerInit
    /\ quota = 0
    /\ seen = Unwatched
    /\ \E ra, rb \in ForfeitRatings : script = ForfeitScript(ra, rb)

ForfeitNext ==
    \E c \in 1..2 :
        \/ Connect(c)
        \/ ResumeWelcome(c)
        \/ \E r \in ForfeitRatings : JoinLobby(c, Rated(r))
        \/ \E tid \in 1..2 : Challenge(c, tid)
        \/ ResumeFail(c)
        \/ ResumeStart1(c)
        \/ ResumeStart2(c)
        \/ ResumeBroadcast(c)
        \/ Disconnect(c)
        \/ ResumeForfeit(c)

SpecForfeit == ForfeitInit /\ [][ForfeitNext]_vars

(***************************************************************************)
(* The claims.                                                             *)
(***************************************************************************)
Registered == Range(players)

\* the Matches that have not ended and that a registered session is attached to
Live ==
    {m \in 1..Len(matches) : ~matches[m].ended /\ \E w \in Registered : P[w].match = m}

Members(m) == {matches[m].p1, matches[m].p2}

\* w is attached to a Match that has not ended
InLiveMatch(w) == P[w].match # None /\ ~matches[P[w].match].ended

\* the registered sessions whose id is tid
WithId(tid) == {w \in Registered : P[w].id = tid}

Elos == [c \in Conns |-> P[c].elo]

\* the type of the message sent by the last step
SentType == IF sent = <<>> THEN "" ELSE sent[1].body.type

\* C1: no registered session is at once lobby-resident and attached to a match.
C1_NeverLobbyAndMatch ==
    \A w \in Registered : ~(P[w].in_lobby /\ P[w].match # None)

\* C2: each Match is resolved once.  Its ended flag is set at most once, each
\* participant is rated at most once and sent at most one match_result or
\* opponent_disconnected for it; a match_end or a forfeit on a match that has already
\* ended changes no rating and sends no such message (a match_end sends nothing).
C2_ResolvedOnce ==
    [][/\ \A m \in 1..Len(audit') :
             /\ audit'[m].ended <= 1
             /\ \A i \in 1..2 : audit'[m].rated[i] <= 1 /\ audit'[m].reported[i] <= 1
       /\ \A m \in 1..Len(matches) : matches[m].ended => matches'[m].ended
       /\ \A c \in Conns : \A score \in ScoreInputs :
             (MatchEnd(c, score) /\ P[c].match # None /\ matches[P[c].match].ended)
                 => (sent' = <<>> /\ Elos' = Elos /\ matches' = matches /\ audit' = audit)
       /\ \A c \in Conns :
             (Disconnect(c) /\ P[c].match # None /\ matches[P[c].match].ended)
                 => /\ Elos' = Elos /\ matches' = matches /\ audit' = audit
                    /\ SentType' \notin {"match_result", "opponent_disconnected"}
      ]_vars

\* C2, its case: a participant has disconnected while still attached to a match that
\* a match_end had already resolved (the handler of the match_end is still suspended
\* before it detaches the match).
C2_Witness ==
    \E m \in 1..Len(matches) : \E c \in Conns :
        /\ matches[m].ended /\ audit[m].rated = <<1, 1>> /\ audit[m].forfeit_by = None
        /\ pc[c] = "closed" /\ P[c].match = m

\* C3: every session takes part in at most one Match that has not ended.
C3_AtMostOneLiveMatch ==
    \A w \in Registered : Cardinality({m \in Live : w \in Members(m)}) <= 1

\* C4: a challenge that involves a session whose current match has not ended fails
\* with challenge_failed and creates no Match.
C4_MatchedNotChallengeable ==
    [][\A c \in Conns : \A tid \in Conns :
          (Challenge(c, tid) /\ (InLiveMatch(c) \/ \E t \in WithId(tid) : InLiveMatch(t)))
              => (matches' = matches /\ SentType' = "challenge_failed")
      ]_vars

\* C5, as claimed: in every interleaving of the scenario A is sent match_result win +16
\* and B lose -16, and the ratings end as A = 1016, B = 984.
C5_EveryInterleaving ==
    /\ (SentType = "match_result" /\ sent[1].to = Actor("A"))
           => (sent[1].body.result = "win" /\ sent[1].body.elo_change = 16)
    /\ (SentType = "match_result" /\ sent[1].to = Actor("B"))
           => (sent[1].body.result = "lose" /\ sent[1].body.elo_change = -16)
    /\ ScenarioDone
           => /\ P[Actor("A")].elo = 1016 /\ P[Actor("B")].elo = 984
              /\ audit[1].reported = <<1, 1>>

\* C5, amended: in every interleaving of the scenario in which A's score_update is
\* taken before B's match_end, A is sent match_result win +16 and B lose -16, and the
\* ratings end as A = 1016, B = 984.
C5_ScoreBeforeEnd ==
    ~BEndEarly => C5_EveryInterleaving

\* C5, its case: the scenario has run to its end with the messages of A and B
\* interleaved, B's match_end after A's score_update and before A's match_end.
C5_Witness ==
    /\ ScenarioDone /\ ~BEndEarly
    /\ \E i \in 1..Len(script.log) :
          /\ script.log[i] = <<"B", "match_end">>
          /\ \E j \in 1..Len(script.log) : j > i /\ script.log[j] = <<"A", "match_end">>
    /\ P[Actor("A")].elo = 1016 /\ P[Actor("B")].elo = 984

\* a session that has forfeited a match by disconnecting
Forfeited(b) == \E m \in 1..Len(audit) : audit[m].forfeit_by = b

\* what the claim says of the step in which b forfeits its match
ForfeitStep ==
    \A b \in Conns :
        (Disconnect(b) /\ InLiveMatch(b))
            => LET m == P[b].match
                   a == CHOOSE w \in Members(m) : w # b
               IN  /\ matches'[m].ended
                   /\ P'[a].match = None
                   /\ Len(sent') = 1 /\ sent'[1].to = a
                   /\ sent'[1].body.type = "opponent_disconnected"
                   /\ sent'[1].body.my_score = P[a].best_score
                   /\ sent'[1].body.opp_score = P[b].best_score
                   /\ sent'[1].body.elo_change = EloChange("win", P[a].elo, P[b].elo)
                   /\ P'[a].elo = Max(MinElo, P[a].elo + EloChange("win", P[a].elo, P[b].elo))
                   /\ audit'[m].reported[Role(m, a)] = 1
                   /\ audit'[m].reported[Role(m, b)] = audit[m].reported[Role(m, b)]

\* a session that has forfeited is out of the registry once its handler has returned
ForfeitedLeaves ==
    \A b \in Conns : (Forfeited(b) /\ pc'[b] = "closed") => b \notin Range(players')

\* the task of b is in _handle_disconnect
Leaving(b) == pc[b] = "dc1" \/ (pc[b] = "bcast" /\ k[b].next = "closed")

\* C6, as claimed: when B disconnects while attached to a match with A that has not
\* ended, the match ends, A's match reference is cleared, A is sent one
\* opponent_disconnected with A's score and B's running score, A's rating rises by the
\* win delta (floored at 100), B leaves the registry, and nothing is sent to B during
\* or after the forfeit.
C6_NothingSentToLeaver ==
    [][/\ ForfeitStep
       /\ ForfeitedLeaves
       /\ \A b \in Conns : Forfeited(b) => (sent' = <<>> \/ sent'[1].to # b)
      ]_vars

\* C6, amended: the same, except that it is the handler of B's disconnect that sends
\* nothing to B; a handler of another connection that was suspended at a send
\* (a challenge, a lobby broadcast) may still send to B's closed connection.
C6_ForfeitSendsNothingToLeaver ==
    [][/\ ForfeitStep
       /\ ForfeitedLeaves
       /\ \A b \in Conns :
             (Disconnect(b) \/ (Leaving(b) /\ (ResumeForfeit(b) \/ ResumeBroadcast(b))))
                 => (sent' = <<>> \/ sent'[1].to # b)
      ]_vars

\* C6, its case: B, with a running score of 5, has just forfeited its match against
\* a session whose client-reported rating of 50 was raised to the floor.
C6_Witness ==
    \E b \in Conns : \E m \in 1..Len(matches) :
        /\ pc[b] = "dc1" /\ audit[m].forfeit_by = b /\ matches[m].ended
        /\ SentType = "opponent_disconnected" /\ sent[1].to # b
        /\ sent[1].body.opp_score = 5
        /\ P[sent[1].to].elo = MinElo /\ P[sent[1].to].match = None

\* C7: no Match that has not ended has a participant that has left the registry.
C7_LiveMatchMembersRegistered ==
    \A m \in Live : Members(m) \subseteq Registered

\* the challenge of c against the id tid is one the claim calls failed
ChallengeFails(c, tid) ==
    \/ WithId(tid) = {}
    \/ \A t \in WithId(tid) : ~P[t].in_lobby
    \/ c \in WithId(tid)
    \/ ~P[c].in_lobby

\* C8: a failed challenge sends one challenge_failed to the requester and nothing
\* else, and leaves every session, the registry and the Matches as they were.
C8_FailedChallengeChangesNothing ==
    [][/\ \A c \in Conns : \A tid \in Conns :
             (Challenge(c, tid) /\ ChallengeFails(c, tid))
                 => /\ P' = P /\ matches' = matches /\ players' = players
                    /\ Len(sent') = 1 /\ sent'[1].to = c
                    /\ sent'[1].body.type = "challenge_failed"
                    /\ pc'[c] = "fail"
       /\ \A c \in Conns :
             pc[c] = "fail"
                 => \/ pc'[c] = "fail"
                    \/ /\ pc'[c] = "idle" /\ sent' = <<>>
                       /\ P' = P /\ matches' = matches /\ players' = players
      ]_vars

\* C8, its case: a challenge of a requester that is not in the lobby against a
\* session that is has just failed.
C8_Witness ==
    \E c \in Conns :
        /\ pc[c] = "fail" /\ ~P[c].in_lobby
        /\ sent = Msg(c, [type |-> "challenge_failed", msg |-> "You are not in the lobby"])
        /\ \E t \in Registered : t # c /\ P[t].in_lobby

\* the outcome the claim gives the challenge of c against the id tid
FirstViolated(c, tid) ==
    IF WithId(tid) = {} \/ \A t \in WithId(tid) : ~P[t].in_lobby
        THEN "Player is no longer available"
    ELSE IF c \in WithId(tid) THEN "Cannot challenge yourself"
    ELSE IF ~P[c].in_lobby THEN "You are not in the lobby"
    ELSE "ok"

\* C9: a challenge fails with the reason of the first violated check, in the order
\* target available, target not the requester, requester in the lobby; it succeeds
\* and creates a Match exactly when no check is violated.
C9_FirstViolatedCheck ==
    [][\A c \in Conns : \A tid \in Conns :
          Challenge(c, tid)
              => IF FirstViolated(c, tid) = "ok"
                 THEN Len(matches') = Len(matches) + 1 /\ SentType' = "match_start"
                 ELSE /\ matches' = matches
                      /\ sent' = Msg(c, [type |-> "challenge_failed",
                                          msg |-> FirstViolated(c, tid)])
      ]_vars

\* C9, its case: a session outside the lobby has challenged itself and was told that
\* the player is no longer available (the first check decides, the second and the
\* third are violated as well).
C9_Witness ==
    \E c \in Conns :
        /\ pc[c] = "fail" /\ ~P[c].in_lobby
        /\ sent = Msg(c, [type |-> "challenge_failed", msg |-> "Player is no longer available"])
        /\ Registered = {c}

\* the match_start the claim has `me` sent for Match m, about its opponent o
StartOf(Pn, m, me, o) ==
    Msg(me, [type |-> "match_start", seed |-> m.seed, opponent |-> Pn[o].name,
             opponent_elo |-> Pn[o].elo, opponent_player_id |-> Pn[o].player_id])

\* each participant is sent one match_start, with the seed of the Match and the name,
\* rating and client player id of the other at the time of the send
StartMessages ==
    /\ \A c \in Conns : \A tid \in Conns :
          (Challenge(c, tid) /\ Len(matches') = Len(matches) + 1)
              => \E t \in WithId(tid) : sent' = StartOf(P, matches'[Len(matches')], c, t)
    /\ \A c \in Conns :
          ResumeStart1(c)
              => LET m == k[c].m
                     t == CHOOSE w \in Members(m) : w # c
                 IN  sent' = StartOf(P, matches[m], t, c) /\ pc'[c] = "start2"
    /\ SentType' = "match_start"
          => \/ \E c \in Conns : \E tid \in Conns : Challenge(c, tid)
             \/ \E c \in Conns : ResumeStart1(c)
    /\ \A m \in 1..Len(audit') : \A i \in 1..2 : audit'[m].started[i] <= 1
    /\ \A c \in Conns : pc'[c] = "start2" => audit'[k'[c].m].started = <<1, 1>>

\* requester and target of a challenge whose handler is suspended are both out of
\* the lobby, attached to the new Match, which has not ended, with running score 0
BothEntered(c) ==
    LET m == k[c].m
    IN  \A w \in Members(m) :
            ~P[w].in_lobby /\ P[w].match = m /\ ~matches[m].ended /\ P[w].best_score = 0

\* C10, as claimed: at every point where another handler can run while the handler of
\* a successful challenge is suspended at a send, both sessions are out of the lobby,
\* attached to the new unended Match with running score 0; each is sent one match_start.
C10_AtEverySuspension ==
    [][/\ \A c \in Conns : pc'[c] \in {"start1", "start2"} => BothEntered(c)'
       /\ StartMessages
      ]_vars

\* C10, amended: a successful challenge changes both sessions in one step, with no
\* send in between: before it both are lobby-resident, after it (at the first send of
\* the handler) both are out of the lobby, attached to the same new unended Match, with
\* running score 0; no other step attaches a session to a Match; each is sent one
\* match_start.  While the handler stays suspended, other handlers may change either
\* session again.
C10_OneStep ==
    [][/\ \A c \in Conns : \A tid \in Conns :
             (Challenge(c, tid) /\ Len(matches') = Len(matches) + 1)
                 => /\ \E t \in WithId(tid) :
                          /\ t # c /\ P[c].in_lobby /\ P[t].in_lobby
                          /\ {matches'[Len(matches')].p1, matches'[Len(matches')].p2} = {c, t}
                    /\ pc'[c] = "start1" /\ k'[c].m = Len(matches')
                    /\ BothEntered(c)'
                    /\ \A w \in Conns \ ({c} \cup WithId(tid)) : P'[w] = P[w]
       /\ (\A c \in Conns : \A tid \in Conns : ~Challenge(c, tid))
             => /\ Len(matches') = Len(matches)
                /\ \A w \in Conns : P'[w].match \in {P[w].match, None}
       /\ StartMessages
      ]_vars

\* C10, its case: a requester that had set its name, rating and player id has
\* challenged with success, and the target has just been sent its match_start.
C10_Witness ==
    \E c \in Conns :
        /\ pc[c] = "start2"
        /\ SentType = "match_start" /\ sent[1].to # c
        /\ sent[1].body.opponent = "Ann" /\ sent[1].body.opponent_elo = 50
        /\ sent[1].body.opponent_player_id = "pid-7"
        /\ BothEntered(c)

\* the number of messages of the given type that the client `who` has had taken
Taken(who, type) ==
    Cardinality({i \in 1..Len(script.log) : script.log[i] = <<who, type>>})

\* the Matches that have b as a participant
MatchesOf(b) == {m \in 1..Len(matches) : b \in Members(m)}

\* C11: A challenges B twice, with no message of B handled in between.  The first
\* challenge, made with both in the lobby, succeeds; the second then fails with
\* "Player is no longer available" and creates nothing, and one Match has B as a
\* participant afterwards.
C11_SecondChallengeFails ==
    [][\A a \in Conns : \A tid \in Conns :
          (Challenge(a, tid) /\ script.cast[a] = "A")
              => LET b == Actor("B")
                 IN  /\ tid = b
                     /\ (Taken("A", "challenge") = 0 /\ P[a].in_lobby /\ P[b].in_lobby
                            /\ b \in Registered)
                            => /\ matches' = Append(matches, Match(a, b, matches'[Len(matches')].seed))
                               /\ SentType' = "match_start"
                     /\ (Taken("A", "challenge") = 1
                            /\ \E m \in 1..Len(matches) : matches[m].p1 = a /\ matches[m].p2 = b)
                            => /\ sent' = Msg(a, [type |-> "challenge_failed",
                                                   msg |-> "Player is no longer available"])
                               /\ matches' = matches
                               /\ Cardinality(MatchesOf(b)') = 1
      ]_vars

\* C11, its case: A's second challenge has just failed while B, which has sent nothing
\* since its join_lobby, is still connected and in the Match the first one created.
C11_Witness ==
    \E a, b \in Conns :
        /\ script.cast[a] = "A" /\ script.cast[b] = "B"
        /\ Taken("A", "challenge") = 2 /\ pc[a] = "fail"
        /\ sent = Msg(a, [type |-> "challenge_failed", msg |-> "Player is no longer available"])
        /\ b \in Registered /\ P[b].match # None /\ matches[P[b].match].p1 = a
        /\ Cardinality(MatchesOf(b)) = 1

\* C12: a malformed payload is dropped.  Nothing is sent, no session, registry or
\* Match changes, and the sender stays registered, waiting for its next message.
C12_MalformedDropped ==
    [][\A c \in Conns : \A raw \in RawInputs :
          Malformed(c, raw)
              => /\ sent' = <<>>
                 /\ P' = P /\ matches' = matches /\ players' = players
                 /\ pc'[c] = "idle"
      ]_vars

\* C13: the stored rating of a session is never below 100.
C13_RatingFloor ==
    \A w \in Registered : P[w].elo >= MinElo

\* C14: score_update only relays.  From a sender without a match, or whose match has
\* ended, nothing is sent and nothing changes.  Otherwise the sender's running score
\* is the only thing that changes, and one opponent_score with that score is sent to
\* the other participant of the sender's match and to nobody else.
C14_ScoreOnlyRelays ==
    [][/\ \A c \in Conns : \A score \in ScoreInputs :
             ScoreUpdate(c, score)
                 => /\ matches' = matches /\ players' = players
                    /\ \A w \in Conns \ {c} : P'[w] = P[w]
                    /\ IF ~InLiveMatch(c)
                       THEN sent' = <<>> /\ P'[c] = P[c] /\ pc'[c] = "idle"
                       ELSE /\ P'[c] = [P[c] EXCEPT !.best_score = P'[c].best_score]
                            /\ score # <<>> => P'[c].best_score = score[1]
                            /\ \E o \in Members(P[c].match) \ {c} :
                                  sent' = Msg(o, [type |-> "opponent_score",
                                                  best_score |-> P'[c].best_score])
       /\ \A c \in Conns :
             pc[c] = "score"
                 => \/ pc'[c] = "score"
                    \/ /\ pc'[c] = "idle" /\ sent' = <<>>
                       /\ P' = P /\ matches' = matches /\ players' = players
      ]_vars

\* C14, its case: a participant's score of 5 has just been relayed to its opponent
\* while a third session is in the lobby.
C14_Witness ==
    \E c \in Conns :
        /\ pc[c] = "score" /\ InLiveMatch(c) /\ P[c].best_score = 5
        /\ SentType = "opponent_score" /\ sent[1].body.best_score = 5
        /\ sent[1].to \in Members(P[c].match) \ {c}
        /\ \E w \in Registered \ Members(P[c].match) : P[w].in_lobby

\* C15: a Match is never seen half-resolved.  In every state in which a Match has
\* ended, the rating updates of the resolution have been applied and the Match is
\* detached from every participant the resolution detaches: both participants for a
\* match_end, the remaining participant for a forfeit.
C15_ResolutionUnsplit ==
    \A m \in 1..Len(matches) :
        matches[m].ended
            => IF audit[m].forfeit_by = None
               THEN /\ audit[m].rated = <<1, 1>>
                    /\ \A w \in Members(m) : P[w].match # m
               ELSE \A w \in Members(m) \ {audit[m].forfeit_by} :
                        audit[m].rated[Role(m, w)] = 1 /\ P[w].match # m

\* C16: the opponent rating in every match_result is the opponent's stored rating
\* with the delta of this match applied to it.
C16_OpponentRatingUpdated ==
    [][/\ \A c \in Conns : \A score \in ScoreInputs :
             (MatchEnd(c, score) /\ SentType' = "match_result")
                 => LET p2 == matches[P[c].match].p2
                    IN  sent'[1].body.opponent_elo
                            = ApplyChange(P'[p2].elo, k'[c].changes[2].elo_change)
       /\ \A c \in Conns :
             ResumeEnd1(c) => sent'[1].body.opponent_elo = P'[matches[k[c].m].p1].elo
      ]_vars

\* the participant that remains when b forfeits its match
Remaining(b) == CHOOSE w \in Members(P[b].match) : w # b

\* the step in which b forfeits sends the rating change to the remaining participant
\* and adds it to that participant's rating; both ratings are at least 100
ForfeitRates(b) ==
    /\ P[Remaining(b)].elo >= MinElo /\ P[b].elo >= MinElo
    /\ SentType' = "opponent_disconnected" /\ sent'[1].to = Remaining(b)
    /\ P'[Remaining(b)].elo = P[Remaining(b)].elo + sent'[1].body.elo_change

\* C17, as claimed: on a forfeit the rating change of the remaining participant is
\* strictly positive for every pair of ratings of at least 100.
C17_ForfeitGainPositive ==
    [][\A b \in Conns :
          (Disconnect(b) /\ InLiveMatch(b))
              => ForfeitRates(b) /\ sent'[1].body.elo_change > 0
      ]_vars

\* C17, amended: on a forfeit the rating change of the remaining participant is
\* round(32 * (1 - expected)): it is between 0 and 32, at least 16 when the remaining
\* participant is not rated above the one that left, strictly positive exactly when
\* the remaining participant is rated less than 720 above it, and 0 from a gap of 720.
C17_ForfeitGainPositiveBelowGap ==
    [][\A b \in Conns :
          (Disconnect(b) /\ InLiveMatch(b))
              => LET chg == sent'[1].body.elo_change
                     gap == P[Remaining(b)].elo - P[b].elo
                 IN  /\ ForfeitRates(b)
                     /\ chg \in 0..K
                     /\ chg > 0 <=> gap < 720
                     /\ gap <= 0 => chg >= K \div 2
      ]_vars

\* C17, its case: a session rated 1000 has just been sent the opponent_disconnected of
\* an opponent rated 280, a gap of 720, with a rating change of 0.
C17_Witness ==
    \E b \in Conns :
        /\ pc[b] = "dc1" /\ P[b].elo = 280
        /\ SentType = "opponent_disconnected" /\ sent[1].body.elo_change = 0
        /\ P[sent[1].to].elo = 1000

\* the participant of Match m in position i of its (p1, p2) pair
Participant(m, i) == IF i = 1 THEN matches[m].p1 ELSE matches[m].p2

\* C18: the resolution of a Match touches only sessions that are attached to it.  A
\* session is rated for a Match, or sent its match_result or opponent_disconnected,
\* only while attached to that Match, and a resolution clears no match reference
\* other than references to the Match it resolves.
C18_ResolutionTouchesOnlyAttached ==
    [][/\ \A m \in 1..Len(audit) : \A i \in 1..2 :
             (\/ audit'[m].rated[i] > audit[m].rated[i]
              \/ audit'[m].reported[i] > audit[m].reported[i])
                 => P[Participant(m, i)].match = m
       /\ \A c \in Conns : \A w \in Conns :
             (ResumeEnd2(c) /\ P'[w].match # P[w].match) => P[w].match = k[c].m
       /\ \A b \in Conns : \A w \in Conns :
             (Disconnect(b) /\ P'[w].match # P[w].match) => P[w].match = P[b].match
      ]_vars

\* a is registered and attached to Match m, whose other participant has left the
\* registry
Abandoned(a, m) ==
    /\ a \in Registered /\ m <= Len(matches) /\ P[a].match = m
    /\ \E w \in Members(m) \ {a} : w \notin Registered

\* a has been sent the match_result or opponent_disconnected of Match m and is no
\* longer attached to it, or a has left the registry itself
Released(a, m) ==
    \/ a \notin Registered
    \/ m <= Len(audit) /\ P[a].match # m /\ audit[m].reported[Role(m, a)] >= 1

\* C19: a session that is attached to a Match whose other participant has left the
\* registry is eventually sent opponent_disconnected or match_result for that Match
\* and detached from it.
C19_EventuallyReleased ==
    \A a \in Conns : \A m \in 1..MaxMatches : Abandoned(a, m) ~> Released(a, m)

\* the ids of the sessions that are lobby-resident
LobbyIds == {P[w].id : w \in {x \in Registered : P[x].in_lobby}}

\* the ids in the last lobby_list that w was sent
SeenIds(w) == {seen.list[w][i].id : i \in 1..Len(seen.list[w])}

\* C20: a lobby_list is sent only to a session that is lobby-resident when it is sent,
\* and once no handler is suspended, the last lobby_list of every lobby-resident
\* session lists exactly the lobby-resident sessions.
C20_LobbyListsConsistent ==
    /\ SentType = "lobby_list" => P[sent[1].to].in_lobby /\ sent[1].to \in Registered
    /\ (seen.on /\ Busy = {})
          => \A w \in Registered : P[w].in_lobby => SeenIds(w) = LobbyIds

=============================================================================
